---- MODULE Spec2Model ----
(***************************************************************************)
(* A model of the lattice reactive-state engine (@lattice/signals):        *)
(* signal(), computed(), effect(), batch(), runWithTracker(), untracked(). *)
(*                                                                         *)
(* Every operation of the engine is synchronous and re-entrant (a write    *)
(* calls notify, which runs a user body, which reads and writes again...). *)
(* The model keeps the JavaScript call stack explicitly: `stack` is the    *)
(* sequence of frames of the engine functions that are in progress, and    *)
(* one step of the model runs the frame on top up to its next call.        *)
(* User code (effect bodies, evaluation functions, batch bodies) is a      *)
(* small set of programs, Prog, written in the instructions the tests use. *)
(***************************************************************************)
EXTENDS Integers, Sequences, FiniteSets, TLC

\* ---------------------------------------------------------------- bounds
MaxVal == 2
MaxEff == 4
MaxNest == 2

\* ------------------------------------------------------------- universe
Vals == 0 .. MaxVal
Sigs == {"s", "t"}
Comps == {"a", "b", "c", "d", "k"}
Cells == Sigs \cup Comps
EffName == <<"e1", "e2", "e3", "e4", "e5", "e6", "e7", "e8">>
Effs == {EffName[i] : i \in 1 .. MaxEff}
Trackers == Comps \cup Effs
None == "none"
\* `let _preBatchValue: T;` holds undefined until the first batched write
Undefined == -1

VARIABLES
  scn,                  \* which user program is running (fixed by Init)
  value,                \* _value of every signal and computed
  preBatchValue,        \* _preBatchValue of every signal
  hasPrebatchValue,     \* _hasPrebatchValue of every signal
  internalSubscribers,  \* per cell: Set of tracker notify callbacks, in insertion order
  members,              \* per cell: the WeakSet `trackers` of registered trackers
  publicSubscribers,    \* per cell: whether the user's callback is in publicSubscribers
  dirty,                \* computed.dirty
  cleanups,             \* tracker.cleanups: the cell each cleanup thunk unregisters from
  active,               \* effect.active
  children,             \* effect.children, in insertion order
  tmpl,                 \* the body (program) of each effect object; None = not allocated
  trackers,             \* tracking.ts: the tracker stack
  isTracking,           \* tracking.ts: isTracking
  batchDepth,           \* batch: batchDepth
  pendingNotifications, \* batch: pendingNotifications, in insertion order
  stack,                \* the call stack of engine functions in progress
  exc,                  \* an exception is propagating
  rv,                   \* the value returned by the call that returned last
  log                   \* what the user's callbacks recorded (the tests' vi.fn and arrays)

vars == <<scn, value, preBatchValue, hasPrebatchValue, internalSubscribers, members,
          publicSubscribers, dirty, cleanups, active, children, tmpl, trackers,
          isTracking, batchDepth, pendingNotifications, stack, exc, rv, log>>

\* The whole state as one record, so that the engine's functions are operators
\* from state to state that call each other as the code does.
Cur ==
  [scn |-> scn, value |-> value, preBatchValue |-> preBatchValue,
   hasPrebatchValue |-> hasPrebatchValue, internalSubscribers |-> internalSubscribers,
   members |-> members, publicSubscribers |-> publicSubscribers, dirty |-> dirty,
   cleanups |-> cleanups, active |-> active, children |-> children, tmpl |-> tmpl,
   trackers |-> trackers, isTracking |-> isTracking, batchDepth |-> batchDepth,
   pendingNotifications |-> pendingNotifications, stack |-> stack, exc |-> exc,
   rv |-> rv, log |-> log]

Apply(m) ==
  /\ scn' = m.scn
  /\ value' = m.value
  /\ preBatchValue' = m.preBatchValue
  /\ hasPrebatchValue' = m.hasPrebatchValue
  /\ internalSubscribers' = m.internalSubscribers
  /\ members' = m.members
  /\ publicSubscribers' = m.publicSubscribers
  /\ dirty' = m.dirty
  /\ cleanups' = m.cleanups
  /\ active' = m.active
  /\ children' = m.children
  /\ tmpl' = m.tmpl
  /\ trackers' = m.trackers
  /\ isTracking' = m.isTracking
  /\ batchDepth' = m.batchDepth
  /\ pendingNotifications' = m.pendingNotifications
  /\ stack' = m.stack
  /\ exc' = m.exc
  /\ rv' = m.rv
  /\ log' = m.log

\* ------------------------------------------------------ sequence helpers
Range(q) == {q[i] : i \in 1 .. Len(q)}
\* an add that moves an element already present to the end
SetAdd_MovesToEnd(q, x) == Append(SelectSeq(q, LAMBDA y : y # x), x)
\* Set.prototype.add on an insertion-ordered Set
SetAdd(q, x) == IF x \in Range(q) THEN q ELSE Append(q, x)
\* Set.prototype.delete
SetDelete(q, x) == SelectSeq(q, LAMBDA y : y # x)
RECURSIVE SetAddAll(_, _)
SetAddAll(q, xs) == IF xs = <<>> THEN q ELSE SetAddAll(SetAdd(q, Head(xs)), Tail(xs))
Front(q) == SubSeq(q, 1, Len(q) - 1)
Last(q) == q[Len(q)]
Min(x, y) == IF x < y THEN x ELSE y

\* ------------------------------------------------------------ user code
\* The bodies the user hands to computed() and effect(), as instruction lists.
\*   read c       x = c.value                 peek c     x = c.peek()
\*   write c      c.value = x (the value read last)
\*   effect T     effect(<body T>)            dispose    handle?.dispose() of the
\*   untracked c  x = untracked(() => c.value)           running effect itself
\*   ueffect T    untracked(() => effect(<body T>))
\*   throw        if (x === 1) throw new Error()
\*   readif c     if (x === 0) x = c.value
\*   incr c       if (x < MaxVal) c.value = x + 1
\*   effectif T   if (x === 1) effect(<body T>)
Ins(op, c) == [op |-> op, c |-> c]
Prog ==
  [a |-> <<Ins("read", "s")>>,                      \* computed(() => s.value * 2)
   b |-> <<Ins("read", "s")>>,                      \* computed(() => s.value * 3)
   c |-> <<Ins("read", "s"), Ins("throw", "s")>>,   \* computed that raises when s is 1
   d |-> <<Ins("read", "s"), Ins("effectif", "G")>>, \* computed that creates an effect when s is 1
   k |-> <<Ins("read", "s")>>,                      \* computed(() => Math.min(s.value, 10))
   D |-> <<Ins("read", "a"), Ins("read", "b")>>,    \* effect(() => seen.push([a.value, b.value]))
   W |-> <<Ins("read", "t"), Ins("write", "s")>>,   \* effect(() => { s.value = t.value })
   P |-> <<Ins("read", "t"), Ins("effect", "C")>>,  \* parent / child / grandchild
   C |-> <<Ins("read", "s"), Ins("effect", "G")>>,
   G |-> <<Ins("read", "s")>>,
   X |-> <<Ins("read", "s"), Ins("dispose", "X"), Ins("read", "t")>>,
   U |-> <<Ins("read", "t"), Ins("ueffect", "G")>>,
   T |-> <<Ins("read", "s"), Ins("throw", "s")>>,
   K |-> <<Ins("read", "s"), Ins("readif", "t")>>,
   F |-> <<Ins("read", "t"), Ins("effect", "G"), Ins("effect", "G")>>,
   Q |-> <<Ins("read", "t"), Ins("peek", "s"), Ins("peek", "a")>>,
   V |-> <<Ins("read", "t"), Ins("ueffect", "N"), Ins("read", "s")>>,
   N |-> <<Ins("untracked", "s"), Ins("read", "t"), Ins("throw", "t")>>,
   R |-> <<Ins("read", "c")>>,
   O |-> <<Ins("read", "k"), Ins("read", "k")>>,    \* reads k twice
   I |-> <<Ins("read", "s"), Ins("read", "s"), Ins("incr", "s")>>]
\* the body of computed c reads signal sg
Reads(c, sg) == \E i \in 1 .. Len(Prog[c]) : Prog[c][i].c = sg

\* The value a body returns: the evaluation functions of a, b, c, d and k (c and
\* d return what they read); an effect body returns nothing.
fa(v) == v * 2
fb(v) == v * 3
fk(v) == Min(v, 10)
Ret(p, acc) ==
  IF p = "a" THEN fa(acc[1])
  ELSE IF p = "b" THEN fb(acc[1])
  ELSE IF p = "k" THEN fk(acc[1])
  ELSE IF p \in {"c", "d"} THEN acc[1]
  ELSE 0

\* The programs of the model: which effects the user creates at top level,
\* which computeds exist and which signals the user writes.
\*   diamond: a and b over s, and an effect reading both
\*   lazy:    a over s, read, subscribed to and read inside untracked
\*   writer:  an effect copying t to s, and a subscriber of s
\*   owner:   an effect creating an effect creating an effect
\*   self:    an effect disposing itself in the middle of its body
\*   detached: an effect creating an effect inside untracked()
\*   thrower: an effect whose body raises when s is 1, and a subscriber of s
\*   dynamic: an effect that reads t only when s is 0
\*   siblings: an effect creating two effects
\*   peeker:  a over s, and an effect that reads t and peeks s and a
\*   nested:  an effect that creates, inside untracked(), an effect that itself
\*            calls untracked() and raises when t is 1, and then reads s
\*   failing: c over s, whose evaluation function raises when s is 1, read at
\*            top level and by an effect
\*   observer: k over s, an effect reading k alone, and a subscriber of k; s is
\*            written in steps of ten, so that k clamps
\*   counter: an effect that increments s, which it reads, up to MaxVal, and a
\*            subscriber of s
\*   pair:    two effects over s, one of which raises when s is 1
\*   maker:   d over s, whose evaluation function creates an effect when s is 1
\*   muted:   k over s and an effect reading k, with s written inside untracked()
Scenarios ==
  {"diamond", "lazy", "writer", "owner", "self", "detached", "thrower", "dynamic",
   "siblings", "peeker", "nested", "failing", "observer", "counter", "pair",
   "maker", "muted"}
TopEffects(sc) ==
  IF sc = "diamond" THEN {"D"}
  ELSE IF sc = "writer" THEN {"W"}
  ELSE IF sc = "owner" THEN {"P"}
  ELSE IF sc = "self" THEN {"X"}
  ELSE IF sc = "detached" THEN {"U"}
  ELSE IF sc = "thrower" THEN {"T"}
  ELSE IF sc = "dynamic" THEN {"K"}
  ELSE IF sc = "siblings" THEN {"F"}
  ELSE IF sc = "peeker" THEN {"Q"}
  ELSE IF sc = "nested" THEN {"V"}
  ELSE IF sc = "failing" THEN {"R"}
  ELSE IF sc \in {"observer", "muted"} THEN {"O"}
  ELSE IF sc = "counter" THEN {"I"}
  ELSE IF sc = "pair" THEN {"T", "G"}
  ELSE {}
MadeComps(sc) ==
  IF sc = "diamond" THEN {"a", "b"} ELSE IF sc \in {"lazy", "peeker"} THEN {"a"}
  ELSE IF sc \in {"observer", "muted"} THEN {"k"}
  ELSE IF sc = "failing" THEN {"c"} ELSE IF sc = "maker" THEN {"d"} ELSE {}
Written(sc) ==
  IF sc \in {"diamond", "lazy", "detached", "thrower", "peeker", "failing", "observer",
            "counter", "pair", "maker", "muted"}
  THEN {"s"}
  ELSE IF sc = "nested" THEN {"t"}
  ELSE Sigs
\* the values the user writes: the bodies of owner, self and detached compute
\* nothing from what they read, so two values are all the writes there are; a
\* is one-to-one, so in lazy two values give every change and every return
WrittenVals(sc) ==
  IF sc \in {"lazy", "owner", "self", "detached", "thrower", "dynamic", "siblings", "peeker",
            "nested", "failing", "pair", "maker", "muted"}
  THEN {0, 1}
  ELSE IF sc = "observer" THEN {10 * v : v \in Vals}
  ELSE Vals
\* the values the body of a batch returns
FnReturns(sc) == IF sc = "dynamic" THEN {1, 2} ELSE {1}
PubCells(sc) ==
  IF sc = "lazy" THEN {"s", "a"}
  ELSE IF sc \in {"writer", "thrower", "counter"} THEN {"s"}
  ELSE IF sc = "observer" THEN {"k"}
  ELSE {}
Untrackable(sc) == IF sc = "lazy" THEN {"a"} ELSE {}
\* the signals the user writes inside untracked()
UntrackedWritten(sc) == IF sc = "muted" THEN {"s"} ELSE {}

\* --------------------------------------------------------------- frames
\* k: the engine function in progress; id: the object it runs on; pc: where
\* it is; acc: the values a body has read; q: the snapshot being iterated;
\* old/new: captured values; flag: a captured boolean; wait: the frame made a
\* call whose result it takes when it is on top again.
Frame(k, id) ==
  [k |-> k, id |-> id, pc |-> 1, acc |-> <<>>, q |-> <<>>, old |-> 0, new |-> 0,
   flag |-> FALSE, wait |-> FALSE]
Top(m) == m.stack[Len(m.stack)]
Pop(m) == [m EXCEPT !.stack = Front(@)]
SetTop(m, fr) == [m EXCEPT !.stack[Len(m.stack)] = fr]
ProgOf(m, tr) == IF tr \in Comps THEN Prog[tr] ELSE Prog[m.tmpl[tr]]

\* the thunk flushPublicSubscribers of each signal, as a member of pendingNotifications
FlushThunk(sg) == IF sg = "s" THEN "flush_s" ELSE "flush_t"
FlushThunks == {FlushThunk(sg) : sg \in Sigs}
FlushSignal(th) == CHOOSE sg \in Sigs : FlushThunk(sg) = th

\* ------------------------------------------------------------- tracking
getCurrentTracker(m) ==
  IF m.isTracking /\ Len(m.trackers) > 0 THEN Last(m.trackers) ELSE None

\* the registration block without the test of the membership record: every
\* read pushes a cleanup
track_EveryRead(m, c) ==
  LET currentTracker == getCurrentTracker(m) IN
  IF currentTracker # None
  THEN [m EXCEPT !.members[c] = @ \cup {currentTracker},
                 !.internalSubscribers[c] = SetAdd(@, currentTracker),
                 !.cleanups[currentTracker] = Append(@, c)]
  ELSE m

\* the registration block of signal.get value and computed.get value
track(m, c) ==
  LET currentTracker == getCurrentTracker(m) IN
  IF currentTracker # None /\ currentTracker \notin m.members[c]
  THEN [m EXCEPT !.members[c] = @ \cup {currentTracker},
                 !.internalSubscribers[c] = SetAdd(@, currentTracker),
                 !.cleanups[currentTracker] = Append(@, c)]
  ELSE m

\* runCleanups with a cleanup that empties the cell's subscriber set instead of
\* deleting the tracker's own callback from it
runCleanups_ClearsCell(m, tr) ==
  LET cs == Range(m.cleanups[tr]) IN
  [m EXCEPT !.internalSubscribers = [c \in Cells |-> IF c \in cs THEN <<>> ELSE @[c]],
            !.members = [c \in Cells |-> IF c \in cs THEN {} ELSE @[c]],
            !.cleanups[tr] = <<>>]

\* tracker.cleanups.forEach((cleanup) => cleanup()); tracker.cleanups.length = 0
runCleanups(m, tr) ==
  LET cs == Range(m.cleanups[tr]) IN
  [m EXCEPT !.internalSubscribers =
              [c \in Cells |-> IF c \in cs THEN SetDelete(@[c], tr) ELSE @[c]],
            !.members = [c \in Cells |-> IF c \in cs THEN @[c] \ {tr} ELSE @[c]],
            !.cleanups[tr] = <<>>]

\* the number of effect objects allocated so far
Allocated(m) == Cardinality({e \in Effs : m.tmpl[e] # None})

\* runWithTracker(tracker, fn), up to the call of fn: push the tracker and
\* start the body. first: the run is the one made by effect() itself. The
\* frame remembers in `old` how many effects existed when the run began (the
\* code does not).
runWithTracker(m, tr, first) ==
  [m EXCEPT !.trackers = Append(@, tr),
            !.stack = Append(@, [Frame("body", tr) EXCEPT !.flag = first,
                                                          !.old = Allocated(m)]),
            !.log.runs[tr] = @ + 1,
            !.log.deps[tr] = {},
            !.log.ranAfter = @ \/ tr \in m.log.disposed]

\* [...publicSubscribers].forEach((subscriber) => subscriber(new, old)): the
\* user's callback is (n, o) => record(n, o, c.peek()). It records its
\* arguments and the value the cell has now, which it reads through peek():
\* a callback reading c.value while a body is running would register that
\* body's tracker on the cell, and the callbacks of these programs do not.
callPublic(m, c, new, old) ==
  IF m.publicSubscribers[c]
  THEN [m EXCEPT !.log.calls[c] = Append(@, <<new, old, m.value[c]>>)]
  ELSE m

\* --------------------------------------------------------------- effect
\* the effect whose body is running innermost (None at top level)
RECURSIVE RunningEffect(_)
RunningEffect(st) ==
  IF st = <<>> THEN None
  ELSE IF Last(st).k = "body" /\ Last(st).id \in Effs THEN Last(st).id
  ELSE RunningEffect(Front(st))
\* x is e, or was created during a run of e, transitively
RECURSIVE CreatedIn(_, _, _)
CreatedIn(m, x, e) ==
  x = e \/ (x # None /\ m.log.createdBy[x] # None /\ CreatedIn(m, m.log.createdBy[x], e))

RECURSIVE dispose(_, _), disposeAll(_, _)
\* effect.children.forEach((child) => child.dispose())
disposeAll(m, kids) ==
  IF kids = <<>> THEN m ELSE disposeAll(dispose(m, Head(kids)), Tail(kids))
\* effect.dispose
dispose(m, e) ==
  LET m1 == disposeAll(m, m.children[e])
      m2 == runCleanups([m1 EXCEPT !.children[e] = <<>>], e)
  IN [m2 EXCEPT !.active[e] = FALSE,
                !.log.disposed = @ \cup {x \in Effs : CreatedIn(m, x, e)}]

\* effect.notify without the test of effect.active of line 19
effectNotify_IgnoresActive(m, e) ==
  LET m1 == disposeAll(m, m.children[e])
      m2 == runCleanups([m1 EXCEPT !.children[e] = <<>>], e)
  IN runWithTracker(m2, e, FALSE)

\* effect.notify without the cleanup pass of lines 22-23
effectNotify_NoCleanups(m, e) ==
  IF m.active[e]
  THEN LET m1 == disposeAll(m, m.children[e])
       IN runWithTracker([m1 EXCEPT !.children[e] = <<>>], e, FALSE)
  ELSE m

\* effect.notify
effectNotify(m, e) ==
  IF m.active[e]
  THEN LET m1 == disposeAll(m, m.children[e])
           m2 == runCleanups([m1 EXCEPT !.children[e] = <<>>], e)
       IN runWithTracker(m2, e, FALSE)
  ELSE m

\* the first effect object not yet allocated
FreshEffect(m) ==
  EffName[CHOOSE i \in 1 .. MaxEff :
            /\ m.tmpl[EffName[i]] = None
            /\ \A j \in 1 .. i - 1 : m.tmpl[EffName[j]] # None]
HasFreshEffect(m) == \E e \in Effs : m.tmpl[e] = None

\* effect(fn), up to the first run of fn
effect(m, T) ==
  LET e == FreshEffect(m)
      m1 == [m EXCEPT !.tmpl[e] = T, !.active[e] = TRUE, !.cleanups[e] = <<>>,
                      !.children[e] = <<>>,
                      !.log.createdBy[e] = RunningEffect(m.stack),
                      !.stack = Append(@, Frame("effect", e))]
  IN runWithTracker(m1, e, TRUE)

\* effect(fn), after the first run: register with the enclosing tracker.
\* A computed has no `children`: currentTracker.children.add raises TypeError.
effectRegister(m) ==
  LET e == Top(m).id
      currentTracker == getCurrentTracker(m)
  IN IF m.exc THEN [Pop(m) EXCEPT !.log.lost = @ \cup {e}]
     ELSE IF currentTracker = None THEN [Pop(m) EXCEPT !.rv = 0]
     ELSE IF currentTracker \in Effs
     THEN [Pop(m) EXCEPT !.children[currentTracker] = SetAdd(@, e), !.rv = 0]
     ELSE [Pop(m) EXCEPT !.exc = TRUE, !.log.lost = @ \cup {e}]

\* ------------------------------------------------------------- computed
\* evaluate(), up to the call of fn; the frame on top takes fn's result
evaluate(m, c) ==
  LET m1 == runCleanups(m, c) IN
  runWithTracker([m1 EXCEPT !.dirty[c] = FALSE,
                            !.log.evals[c] = @ + 1,
                            !.log.since[c] = Min(@ + 1, 2)], c, FALSE)

\* computed.get value, up to the evaluation (or the whole of it when clean)
computedGet(m, c) ==
  IF m.dirty[c]
  THEN evaluate([m EXCEPT !.stack = Append(@, [Frame("get", c) EXCEPT !.old = m.value[c]])], c)
  ELSE [track(m, c) EXCEPT !.rv = m.value[c]]

\* computedGetRest without the comparison of line 24: the public subscribers
\* are called after every re-evaluation
computedGetRest_AlwaysCalls(m) ==
  LET c == Top(m).id
      oldValue == Top(m).old
      m1 == [Pop(m) EXCEPT !.value[c] = m.rv]
      m2 == callPublic(m1, c, m.rv, oldValue)
  IN IF m.exc THEN Pop(m) ELSE [track(m2, c) EXCEPT !.rv = m2.value[c]]

\* computed.get value, after evaluate() returned
computedGetRest(m) ==
  LET c == Top(m).id
      oldValue == Top(m).old
      m1 == [Pop(m) EXCEPT !.value[c] = m.rv]
      m2 == IF m.rv # oldValue THEN callPublic(m1, c, m.rv, oldValue) ELSE m1
  IN IF m.exc THEN Pop(m) ELSE [track(m2, c) EXCEPT !.rv = m2.value[c]]

\* computed.notify, up to the evaluation
computedNotify(m, c) ==
  LET m1 == [m EXCEPT !.dirty[c] = TRUE] IN
  IF Len(m.internalSubscribers[c]) > 0
  THEN evaluate([m1 EXCEPT !.stack = Append(@, [Frame("notify", c) EXCEPT !.old = m.value[c]])], c)
  ELSE m1

\* tracker.notify of either kind of tracker
notify(m, tr) == IF tr \in Comps THEN computedNotify(m, tr) ELSE effectNotify(m, tr)

\* computedNotifyRest without the comparison of line 48: the internal
\* subscribers are notified after every re-evaluation
computedNotifyRest_NoCutoff(m) ==
  LET fr == Top(m)
      c == fr.id
  IN IF m.exc THEN Pop(m)
     ELSE IF fr.pc = 1
     THEN LET m1 == [m EXCEPT !.value[c] = m.rv] IN
          IF m.internalSubscribers[c] # <<>>
          THEN SetTop(m1, [fr EXCEPT !.pc = 2, !.q = m.internalSubscribers[c]])
          ELSE Pop(m1)
     ELSE IF fr.q = <<>> THEN Pop(m)
     ELSE notify(SetTop(m, [fr EXCEPT !.q = Tail(@)]), Head(fr.q))

\* computed.notify, after evaluate() returned: compare, then call the snapshot
\* [...internalSubscribers] one subscriber per step
computedNotifyRest(m) ==
  LET fr == Top(m)
      c == fr.id
  IN IF m.exc THEN Pop(m)
     ELSE IF fr.pc = 1
     THEN LET m1 == [m EXCEPT !.value[c] = m.rv] IN
          IF m.rv # fr.old /\ m.internalSubscribers[c] # <<>>
          THEN SetTop(m1, [fr EXCEPT !.pc = 2, !.q = m.internalSubscribers[c]])
          ELSE Pop(m1)
     ELSE IF fr.q = <<>> THEN Pop(m)
     ELSE notify(SetTop(m, [fr EXCEPT !.q = Tail(@)]), Head(fr.q))

\* --------------------------------------------------------------- signal
\* signal.get value
signalGet(m, sg) == [track(m, sg) EXCEPT !.rv = m.value[sg]]

\* flushPublicSubscribers
flushPublicSubscribers(m, sg) ==
  IF m.hasPrebatchValue[sg] /\ m.value[sg] = m.preBatchValue[sg]
  THEN [m EXCEPT !.hasPrebatchValue[sg] = FALSE, !.log.flushed[sg] = TRUE]
  ELSE callPublic([m EXCEPT !.hasPrebatchValue[sg] = FALSE, !.log.flushed[sg] = TRUE],
                  sg, m.value[sg], m.preBatchValue[sg])

\* batch(fn), up to the call of fn: batchDepth++. The frame remembers in `old`
\* the depth the call found and in `new` what fn returned (the code keeps
\* neither).
batch(m) ==
  [m EXCEPT !.batchDepth = @ + 1,
            !.stack = Append(@, [Frame("batch", None) EXCEPT !.old = m.batchDepth,
                                                             !.new = Undefined])]

\* signalSet without the equality check of lines 56-58
signalSet_NoEqualityCheck(m, sg, newValue) ==
  LET oldValue == m.value[sg] IN
  LET m1 == [m EXCEPT !.value[sg] = newValue,
                           !.log.late[sg] = @ \/ m.log.flushed[sg],
                           !.log.since = [c \in Comps |-> IF Reads(c, sg) THEN 0 ELSE @[c]],
                           !.log.reads = [c \in Comps |-> IF Reads(c, sg) THEN 0 ELSE @[c]]]
       IN
       IF m.batchDepth > 0
       THEN LET m2 == IF ~m.hasPrebatchValue[sg]
                      THEN [m1 EXCEPT !.preBatchValue[sg] = oldValue,
                                      !.hasPrebatchValue[sg] = TRUE]
                      ELSE m1
            IN [m2 EXCEPT !.pendingNotifications =
                            SetAddAll(SetAdd(@, FlushThunk(sg)), m.internalSubscribers[sg])]
       ELSE [batch(m1) EXCEPT !.stack =
               Append(@, [Frame("set", sg) EXCEPT !.q = m.internalSubscribers[sg],
                                                  !.new = newValue, !.old = oldValue])]

\* signal.set value. Unbatched, it opens batch() around the two notification
\* passes: the "set" frame is the arrow function handed to batch.
signalSet(m, sg, newValue) ==
  LET oldValue == m.value[sg] IN
  IF newValue = oldValue THEN m
  ELSE LET m1 == [m EXCEPT !.value[sg] = newValue,
                           !.log.late[sg] = @ \/ m.log.flushed[sg],
                           !.log.since = [c \in Comps |-> IF Reads(c, sg) THEN 0 ELSE @[c]],
                           !.log.reads = [c \in Comps |-> IF Reads(c, sg) THEN 0 ELSE @[c]]]
       IN
       IF m.batchDepth > 0
       THEN LET m2 == IF ~m.hasPrebatchValue[sg]
                      THEN [m1 EXCEPT !.preBatchValue[sg] = oldValue,
                                      !.hasPrebatchValue[sg] = TRUE]
                      ELSE m1
            IN [m2 EXCEPT !.pendingNotifications =
                            SetAddAll(SetAdd(@, FlushThunk(sg)), m.internalSubscribers[sg])]
       ELSE [batch(m1) EXCEPT !.stack =
               Append(@, [Frame("set", sg) EXCEPT !.q = m.internalSubscribers[sg],
                                                  !.new = newValue, !.old = oldValue])]

\* the arrow function of the unbatched branch: the snapshot of the internal
\* subscribers one per step, then the public subscribers with (newValue, oldValue)
signalSetRest(m) ==
  LET fr == Top(m) IN
  IF m.exc THEN Pop(m)
  ELSE IF fr.q # <<>> THEN notify(SetTop(m, [fr EXCEPT !.q = Tail(@)]), Head(fr.q))
  ELSE callPublic(Pop(m), fr.id, fr.new, fr.old)

\* ---------------------------------------------------------------- batch
\* one queued notification: flushPublicSubscribers of a signal or a tracker's notify
invoke(m, th) ==
  IF th \in FlushThunks THEN flushPublicSubscribers(m, FlushSignal(th)) ELSE notify(m, th)

\* batchFinally without the test `batchDepth === 1` of line 34: every batch()
\* call drains the pending set when its fn is done
batchFinally_FlushAtAnyDepth(m) ==
  LET fr == Top(m) IN
  IF fr.pc = 1
  THEN SetTop([m EXCEPT !.exc = FALSE], [fr EXCEPT !.pc = 2, !.flag = m.exc])
  ELSE IF m.exc THEN Pop(m)
  ELSE IF fr.q # <<>> THEN invoke(SetTop(m, [fr EXCEPT !.q = Tail(@)]), Head(fr.q))
  ELSE IF m.pendingNotifications # <<>>
  THEN SetTop([m EXCEPT !.pendingNotifications = <<>>],
              [fr EXCEPT !.q = m.pendingNotifications])
  ELSE [Pop(m) EXCEPT !.batchDepth = @ - 1, !.exc = fr.flag, !.rv = Undefined]

\* batchFinally whose finally block completes normally after the drain, which
\* discards an exception that was passing through it
batchFinally_DiscardsError(m) ==
  LET fr == Top(m) IN
  IF fr.pc = 1
  THEN IF m.batchDepth = 1
       THEN SetTop([m EXCEPT !.exc = FALSE], [fr EXCEPT !.pc = 2, !.flag = m.exc])
       ELSE [Pop(m) EXCEPT !.batchDepth = @ - 1, !.rv = Undefined]
  ELSE IF m.exc THEN Pop(m)
  ELSE IF fr.q # <<>> THEN invoke(SetTop(m, [fr EXCEPT !.q = Tail(@)]), Head(fr.q))
  ELSE IF m.pendingNotifications # <<>>
  THEN SetTop([m EXCEPT !.pendingNotifications = <<>>],
              [fr EXCEPT !.q = m.pendingNotifications])
  ELSE [Pop(m) EXCEPT !.batchDepth = @ - 1, !.exc = FALSE, !.rv = Undefined]

\* batchFinally returning what fn returned
batchFinally_ReturnsFn(m) ==
  LET fr == Top(m) IN
  IF fr.pc = 1
  THEN IF m.batchDepth = 1
       THEN SetTop([m EXCEPT !.exc = FALSE], [fr EXCEPT !.pc = 2, !.flag = m.exc])
       ELSE [Pop(m) EXCEPT !.batchDepth = @ - 1, !.rv = fr.new]
  ELSE IF m.exc THEN Pop(m)
  ELSE IF fr.q # <<>> THEN invoke(SetTop(m, [fr EXCEPT !.q = Tail(@)]), Head(fr.q))
  ELSE IF m.pendingNotifications # <<>>
  THEN SetTop([m EXCEPT !.pendingNotifications = <<>>],
              [fr EXCEPT !.q = m.pendingNotifications])
  ELSE [Pop(m) EXCEPT !.batchDepth = @ - 1, !.exc = fr.flag, !.rv = fr.new]

\* batch(fn), the finally block. pc = 1: fn has returned or raised. pc = 2: in
\* the while loop; q is `queued`. An exception of a notification leaves the
\* finally block at once: the rest of queued and batchDepth-- are skipped.
\* batch has no return statement: the call yields undefined.
batchFinally(m) ==
  LET fr == Top(m) IN
  IF fr.pc = 1
  THEN IF m.batchDepth = 1
       THEN SetTop([m EXCEPT !.exc = FALSE], [fr EXCEPT !.pc = 2, !.flag = m.exc])
       ELSE [Pop(m) EXCEPT !.batchDepth = @ - 1, !.rv = Undefined]
  ELSE IF m.exc THEN Pop(m)
  ELSE IF fr.q # <<>> THEN invoke(SetTop(m, [fr EXCEPT !.q = Tail(@)]), Head(fr.q))
  ELSE IF m.pendingNotifications # <<>>
  THEN SetTop([m EXCEPT !.pendingNotifications = <<>>],
              [fr EXCEPT !.q = m.pendingNotifications])
  ELSE [Pop(m) EXCEPT !.batchDepth = @ - 1, !.exc = fr.flag, !.rv = Undefined]

\* ------------------------------------------------------------ untracked
\* untracked(fn), up to the call of fn
untracked(m) ==
  [m EXCEPT !.isTracking = FALSE,
            !.stack = Append(@, [Frame("untracked", None) EXCEPT !.flag = m.isTracking])]
\* untrackedFinally setting the mode to tracking instead of to the saved mode
untrackedFinally_RestoresTrue(m) == [Pop(m) EXCEPT !.isTracking = TRUE]

\* untracked(fn), the finally block
untrackedFinally(m) == [Pop(m) EXCEPT !.isTracking = Top(m).flag]

\* -------------------------------------------------- running a user body
\* peek() with the registration block of get value in it
peek_Tracks(m, c) == [track(m, c) EXCEPT !.rv = m.value[c]]

\* signal.peek and computed.peek: return _value
peek(m, c) == [m EXCEPT !.rv = m.value[c]]

read(m, c) == IF c \in Sigs THEN signalGet(m, c) ELSE computedGet(m, c)

\* the body on top takes the result of the call it made
takeResult(m) ==
  SetTop(m, [Top(m) EXCEPT !.wait = FALSE, !.acc = Append(@, m.rv), !.pc = @ + 1])

\* the call the body on top was waiting for has returned: a .value read that
\* returned is a read of this run (one whose evaluation raised returned nothing)
returned(m) ==
  LET fr == Top(m)
      i == ProgOf(m, fr.id)[fr.pc]
  IN IF i.op \in {"read", "readif"}
     THEN takeResult([m EXCEPT !.log.deps[fr.id] = @ \cup {i.c}])
     ELSE takeResult(m)

\* a call made by the body on top: when it pushed nothing it has returned
called(m, m1) == IF Len(m1.stack) = Len(m.stack) THEN returned(m1) ELSE m1

\* One step of the body on top of the stack, inside runWithTracker: its next
\* instruction; or its return, or an exception passing through it, with the
\* finally block of runWithTracker (trackers.pop()).
bodyStep(m) ==
  LET fr == Top(m)
      tr == fr.id
      prog == ProgOf(m, tr)
      next == SetTop(m, [fr EXCEPT !.pc = @ + 1])
      waiting == SetTop(m, [fr EXCEPT !.wait = TRUE])
  IN IF m.exc THEN [Pop(m) EXCEPT !.trackers = Front(@)]
     ELSE IF fr.wait THEN returned(m)
     ELSE IF fr.pc > Len(prog)
     THEN LET m1 == [Pop(m) EXCEPT !.trackers = Front(@)] IN
          IF tr \in Comps THEN [m1 EXCEPT !.rv = Ret(tr, fr.acc)]
          ELSE [m1 EXCEPT !.rv = 0, !.log.seen[tr] = Append(@, fr.acc)]
     ELSE LET i == prog[fr.pc] IN
          CASE i.op = "read" -> called(m, read(waiting, i.c))
            [] i.op = "readif" ->
                 IF Last(fr.acc) = 0 THEN called(m, read(waiting, i.c)) ELSE next
            [] i.op = "peek" -> takeResult(peek(m, i.c))
            [] i.op = "untracked" -> read(untracked(waiting), i.c)
            [] i.op = "write" ->
                 signalSet([next EXCEPT !.log.rw[i.c] = @ \/ Last(fr.acc) # m.value[i.c]],
                           i.c, Last(fr.acc))
            [] i.op = "incr" ->
                 IF Last(fr.acc) < MaxVal
                 THEN signalSet([next EXCEPT !.log.rw[i.c] = TRUE], i.c, Last(fr.acc) + 1)
                 ELSE next
            [] i.op = "effect" -> effect(next, i.c)
            [] i.op = "effectif" -> IF Last(fr.acc) = 1 THEN effect(next, i.c) ELSE next
            [] i.op = "ueffect" -> effect(untracked(waiting), i.c)
            [] i.op = "dispose" -> IF fr.flag THEN next ELSE dispose(next, tr)
            [] i.op = "throw" ->
                 IF Last(fr.acc) = 1 THEN [next EXCEPT !.exc = TRUE, !.log.threw = TRUE]
                 ELSE next
            [] OTHER -> [next EXCEPT !.exc = TRUE]

\* The call in progress on top of the stack continues: one step of the engine
\* function it belongs to (every operation is synchronous and runs to its end).
resume(m) ==
  LET k == Top(m).k IN
  CASE k = "body" -> bodyStep(m)
    [] k = "effect" -> effectRegister(m)
    [] k = "get" -> computedGetRest(m)
    [] k = "notify" -> computedNotifyRest(m)
    [] k = "set" -> signalSetRest(m)
    [] k = "batch" -> batchFinally(m)
    [] k = "untracked" -> untrackedFinally(m)
    [] OTHER -> m

\* ------------------------------------------------------- the user's log
\* calls: the arguments (and the value seen) of every public-subscriber call
\* runs:  how often each body was invoked     evals: each evaluation function
\* seen:  what each completed effect run read
\* op:    the top-level call in progress (or last made); pre: the signals before it
\* uw:    how many writes by the user's own code changed each signal (2 = several)
\* rw:    whether a write by an effect body changed it
\* flushed: whether the signal's flush thunk has run; late: whether a write
\*        changed the signal after that
\* wrote: the value the user's own code changed each signal to last (Undefined: none)
\* raised: the body of the outermost batch raised
\* ret:   the value the body of the outermost batch returned (Undefined: none)
\* latest: for a top-level write, the cells each reaction active at its start
\*        had read through .value in its latest run ({None}: not active)
\* threw: a reaction body or an evaluation function raised, and the user's code
\*        has not caught the exception
\* all since the start of the top-level call. And since the start:
\* since: how often each evaluation function ran since a signal that it reads
\*        last changed (2 = several); reads: 1 when a top-level .value read of
\*        the computed was made since then
\* createdBy: the effect during whose run each effect was created
\* disposed: the effects on which dispose() has returned, and those created in
\*        their runs; ranAfter: the body of one of them was invoked after that
\* lost:  the effects whose effect() call raised, so that nobody holds the handle
\* deps:  the cells each tracker's body read through .value in its latest run
NewLog(m, op) ==
  [m.log EXCEPT !.calls = [c \in Cells |-> <<>>], !.runs = [tr \in Trackers |-> 0],
                !.evals = [c \in Comps |-> 0], !.seen = [e \in Effs |-> <<>>],
                !.op = op, !.pre = [sg \in Sigs |-> m.value[sg]],
                !.uw = [sg \in Sigs |-> 0], !.rw = [sg \in Sigs |-> FALSE],
                !.flushed = [sg \in Sigs |-> FALSE], !.late = [sg \in Sigs |-> FALSE],
                !.wrote = [sg \in Sigs |-> Undefined], !.raised = FALSE,
                !.ret = Undefined, !.threw = FALSE,
                !.latest = [e \in Effs |-> IF op.k = "write" /\ m.active[e]
                                           THEN m.log.deps[e] ELSE {None}]]
Op(k, c, v) == [k |-> k, c |-> c, v |-> v]

\* ------------------------------------------------------------------ Init
Init ==
  /\ scn \in Scenarios
  /\ value = [c \in Cells |-> IF c = "b" /\ c \in MadeComps(scn) THEN fb(0) ELSE 0]
  /\ preBatchValue = [sg \in Sigs |-> Undefined]
  /\ hasPrebatchValue = [sg \in Sigs |-> FALSE]
  /\ internalSubscribers =
       [c \in Cells |-> IF c = "s"
                        THEN SelectSeq(<<"a", "b", "c", "d", "k">>, LAMBDA x : x \in MadeComps(scn))
                        ELSE <<>>]
  /\ members = [c \in Cells |-> IF c = "s" THEN MadeComps(scn) ELSE {}]
  /\ publicSubscribers = [c \in Cells |-> FALSE]
  /\ dirty = [c \in Comps |-> FALSE]
  /\ cleanups = [tr \in Trackers |-> IF tr \in MadeComps(scn) THEN <<"s">> ELSE <<>>]
  /\ active = [e \in Effs |-> FALSE]
  /\ children = [e \in Effs |-> <<>>]
  /\ tmpl = [e \in Effs |-> None]
  /\ trackers = <<>>
  /\ isTracking = TRUE
  /\ batchDepth = 0
  /\ pendingNotifications = <<>>
  /\ stack = <<>>
  /\ exc = FALSE
  /\ rv = 0
  /\ log = [calls |-> [c \in Cells |-> <<>>], runs |-> [tr \in Trackers |-> 0],
            evals |-> [c \in Comps |-> 0], seen |-> [e \in Effs |-> <<>>],
            op |-> Op("init", None, 0), pre |-> [sg \in Sigs |-> 0],
            uw |-> [sg \in Sigs |-> 0], rw |-> [sg \in Sigs |-> FALSE],
            flushed |-> [sg \in Sigs |-> FALSE], late |-> [sg \in Sigs |-> FALSE],
            wrote |-> [sg \in Sigs |-> Undefined], raised |-> FALSE, ret |-> Undefined,
            threw |-> FALSE, latest |-> [e \in Effs |-> {None}],
            since |-> [c \in Comps |-> IF c \in MadeComps(scn) THEN 1 ELSE 0],
            reads |-> [c \in Comps |-> 0],
            createdBy |-> [e \in Effs |-> None], disposed |-> {}, ranAfter |-> FALSE,
            lost |-> {},
            deps |-> [tr \in Trackers |-> IF tr \in MadeComps(scn) THEN {"s"} ELSE {}]]

\* ------------------------------------------------- the user's own calls
AtTop == stack = <<>>
InFn == stack # <<>> /\ Last(stack).k = "fn"
\* user code is in control: at top level, or in the body of a batch
Quiet == AtTop \/ (InFn /\ ~exc)
\* a top-level call starts a new log; the test harness has caught what the
\* previous call raised. No call of the user has returned anything yet.
Start(op) ==
  IF AtTop THEN [Cur EXCEPT !.exc = FALSE, !.rv = Undefined, !.log = NewLog(Cur, op)]
  ELSE [Cur EXCEPT !.rv = Undefined]

\* s.value = v
EnvWrite(sg, v) ==
  /\ Quiet
  /\ LET m == Start(Op("write", sg, v)) IN
     Apply(signalSet([m EXCEPT !.log.uw[sg] = IF v # value[sg] THEN Min(@ + 1, 2) ELSE @,
                               !.log.wrote[sg] = IF v # value[sg] THEN v ELSE @],
                     sg, v))

\* c.value
CountRead(m, c) == IF AtTop THEN [m EXCEPT !.log.reads[c] = 1] ELSE m
EnvRead(c) ==
  /\ Quiet
  /\ Apply(computedGet(CountRead(Start(Op("read", c, 0)), c), c))

\* untracked(() => c.value)
EnvUntrackedRead(c) ==
  /\ Quiet
  /\ Apply(computedGet(untracked(CountRead(Start(Op("untracked", c, 0)), c)), c))

\* untracked(() => { sg.value = v }) at top level
EnvUntrackedWrite(sg, v) ==
  /\ AtTop
  /\ LET m == Start(Op("uwrite", sg, v)) IN
     Apply(signalSet(untracked([m EXCEPT !.log.uw[sg] = IF v # value[sg] THEN Min(@ + 1, 2)
                                                        ELSE @,
                                         !.log.wrote[sg] = IF v # value[sg] THEN v ELSE @]),
                     sg, v))

\* effect(<body T>) at top level
EnvEffect(T) ==
  /\ AtTop
  /\ \A e \in Effs : tmpl[e] # T
  /\ HasFreshEffect(Cur)
  /\ Apply(effect(Start(Op("effect", T, 0)), T))

\* handle.dispose()
EnvDispose(e) ==
  /\ Quiet
  /\ tmpl[e] # None /\ e \notin log.lost
  /\ Apply(dispose(Start(Op("dispose", e, 0)), e))

\* c.subscribe(callback) and the unsubscribe function it returned
EnvSubscribe(c) ==
  /\ AtTop
  /\ Apply([Start(Op("subscribe", c, 0)) EXCEPT !.publicSubscribers[c] = TRUE])
EnvUnsubscribe(c) ==
  /\ AtTop
  /\ Apply([Start(Op("unsubscribe", c, 0)) EXCEPT !.publicSubscribers[c] = FALSE])

\* batch(() => { ... }): the body is the user's calls made while its frame is on top
EnvBatch ==
  /\ Quiet
  /\ batchDepth < MaxNest
  /\ Apply([batch(Start(Op("batch", None, 0))) EXCEPT !.stack = Append(@, Frame("fn", None))])
\* the body of the batch returns v; or raises
EnvBatchReturn(v) ==
  /\ InFn /\ ~exc
  /\ LET m == [Pop(Cur) EXCEPT !.rv = v,
                             !.log.ret = IF Len(stack) = 2 THEN v ELSE @]
     IN Apply(SetTop(m, [Top(m) EXCEPT !.new = v]))
EnvBatchThrow ==
  /\ InFn /\ ~exc
  /\ Apply([Pop(Cur) EXCEPT !.exc = TRUE, !.log.raised = @ \/ Len(stack) = 2])
\* a call made by the body of a batch raised: the body catches it; or does not
FnCatch ==
  /\ InFn /\ exc
  /\ Apply([Cur EXCEPT !.exc = FALSE, !.log.threw = FALSE])
FnPropagate ==
  /\ InFn /\ exc
  /\ Apply([Pop(Cur) EXCEPT !.log.raised = @ \/ Len(stack) = 2])

\* ------------------------------------------------ the engine's own steps
TopIs(k) == stack # <<>> /\ Last(stack).k = k
StepBody ==
  /\ TopIs("body")
  /\ LET fr == Last(stack)
         prog == ProgOf(Cur, fr.id)
     IN (/\ ~exc /\ ~fr.wait /\ fr.pc <= Len(prog)
         /\ \/ prog[fr.pc].op \in {"effect", "ueffect"}
            \/ prog[fr.pc].op = "effectif" /\ Last(fr.acc) = 1)
          => HasFreshEffect(Cur)
  /\ Apply(bodyStep(Cur))
StepEffect == TopIs("effect") /\ Apply(effectRegister(Cur))
StepGet == TopIs("get") /\ Apply(computedGetRest(Cur))
StepNotify == TopIs("notify") /\ Apply(computedNotifyRest(Cur))
StepSet == TopIs("set") /\ Apply(signalSetRest(Cur))
StepBatch == TopIs("batch") /\ Apply(batchFinally(Cur))
StepUntracked == TopIs("untracked") /\ Apply(untrackedFinally(Cur))

Next ==
  \/ \E sg \in Written(scn), v \in WrittenVals(scn) : EnvWrite(sg, v)
  \/ \E c \in MadeComps(scn) : EnvRead(c)
  \/ \E c \in Untrackable(scn) : EnvUntrackedRead(c)
  \/ \E sg \in UntrackedWritten(scn), v \in WrittenVals(scn) : EnvUntrackedWrite(sg, v)
  \/ \E T \in TopEffects(scn) : EnvEffect(T)
  \/ \E e \in Effs : EnvDispose(e)
  \/ \E c \in PubCells(scn) : EnvSubscribe(c)
  \/ \E c \in PubCells(scn) : EnvUnsubscribe(c)
  \/ EnvBatch
  \/ \E v \in FnReturns(scn) : EnvBatchReturn(v)
  \/ EnvBatchThrow
  \/ FnCatch
  \/ FnPropagate
  \/ StepBody
  \/ StepEffect
  \/ StepGet
  \/ StepNotify
  \/ StepSet
  \/ StepBatch
  \/ StepUntracked

Spec == Init /\ [][Next]_vars

\* ================================================================ claims

\* C1: every run of the reaction over the diamond (a = fa(s), b = fb(s))
\* records a pair (fa(v), fb(v)) for one single value v of s.
C1_DiamondConsistent ==
  \A e \in Effs :
    tmpl[e] = "D" =>
      \A i \in 1 .. Len(log.seen[e]) :
        \E v \in Vals : log.seen[e][i] = <<fa(v), fb(v)>>

\* the user's own code changed exactly one signal during the top-level call,
\* and did so n times (2 = several)
OnlyWrote(sg, n) ==
  /\ log.uw[sg] = n
  /\ \A o \in Sigs \ {sg} : log.uw[o] = 0

\* C2: after a top-level write that changed s, or a batch whose only write
\* changed s, the reaction reading a and b has run exactly once more.
C2_SingleRerun ==
  (AtTop /\ log.op.k \in {"write", "batch"} /\ OnlyWrote("s", 1)) =>
    \A e \in Effs : (tmpl[e] = "D" /\ active[e]) => log.runs[e] = 1

\* C3: at a quiescent point, the value a top-level read of a derived cell has
\* returned is its evaluation function applied to the current value of s.
C3_Fresh ==
  (AtTop /\ batchDepth = 0 /\ ~exc /\ log.op.k \in {"read", "untracked"}) =>
    rv = Ret(log.op.c, <<value["s"]>>)

\* C4: after a batch whose writes all went to one cell, every reaction has run
\* at most once and every public subscriber was called at most once, with the
\* value of the last write.
C4_Coalesced ==
  (AtTop /\ log.op.k = "batch" /\ \E sg \in Sigs : \E n \in 1 .. 2 : OnlyWrote(sg, n)) =>
    /\ \A e \in Effs : log.runs[e] <= 1
    /\ \A c \in Cells :
         /\ Len(log.calls[c]) <= 1
         /\ \A i \in 1 .. Len(log.calls[c]) : log.calls[c][i][3] = value[c]

\* a batch has returned in which signal sg was written, by the body of the
\* batch or by a reaction, and every write to sg came before the flush of sg
WrittenInBatch(sg) ==
  /\ AtTop /\ log.op.k = "batch"
  /\ log.uw[sg] >= 1 \/ log.rw[sg]
  /\ ~log.late[sg]

\* C5: after a batch in which a signal was written and whose final value differs
\* from the value before the batch, its public subscriber has been called
\* exactly once, with (final value, value before the batch).
C5_PreBatchOldValue ==
  \A sg \in Sigs :
    (WrittenInBatch(sg) /\ publicSubscribers[sg] /\ value[sg] # log.pre[sg]) =>
      log.calls[sg] = << <<value[sg], log.pre[sg], value[sg]>> >>

\* C6: after a batch in which a signal was written and at whose flush the
\* signal had its value of before the batch, no public subscriber of the signal
\* has been called.
C6_RevertSilent ==
  \A sg \in Sigs :
    (WrittenInBatch(sg) /\ value[sg] = log.pre[sg]) => log.calls[sg] = <<>>

\* the engine's state, less the call stack and the user's log
engine ==
  <<value, preBatchValue, hasPrebatchValue, internalSubscribers, members,
    publicSubscribers, dirty, cleanups, active, children, tmpl, trackers,
    isTracking, batchDepth, pendingNotifications>>
\* nothing was called, run or evaluated by the step
NothingRan ==
  /\ log'.calls \in {log.calls, [c \in Cells |-> <<>>]}
  /\ log'.runs \in {log.runs, [tr \in Trackers |-> 0]}
  /\ log'.evals \in {log.evals, [c \in Comps |-> 0]}
  /\ \A c \in Cells : Len(log'.calls[c]) <= Len(log.calls[c])
  /\ \A tr \in Trackers : log'.runs[tr] <= log.runs[tr]
  /\ \A c \in Comps : log'.evals[c] <= log.evals[c]
\* a call the user makes at top level is the one the log of the next state names
Logged(op) == AtTop => log'.op = op
\* the effect body on top of the stack is about to write to sg the value it holds
BodyWrites(sg) ==
  /\ TopIs("body") /\ ~exc /\ ~Last(stack).wait
  /\ LET fr == Last(stack)
         prog == ProgOf(Cur, fr.id)
     IN /\ fr.pc <= Len(prog)
        /\ prog[fr.pc] = Ins("write", sg)
        /\ Last(fr.acc) = value[sg]

\* C7: a write of the value a signal already holds, by the user at top level or
\* inside a batch, or by an effect body, returns at once and leaves the stored
\* values, the pending set, the dirty flags and every registration as they
\* were; nothing is called, run or evaluated.
C7_EqualWriteNoOp ==
  [][\A sg \in Sigs :
       /\ (Logged(Op("write", sg, value[sg])) /\ EnvWrite(sg, value[sg])) =>
            (UNCHANGED <<engine, stack>> /\ NothingRan)
       /\ (BodyWrites(sg) /\ StepBody) =>
            (/\ UNCHANGED engine
             /\ stack' = [stack EXCEPT ![Len(stack)].pc = @ + 1]
             /\ NothingRan)]_vars
\* an equal write to a signal that is not at its initial value has returned at
\* top level, the signal having a public subscriber and an internal one
C7_Witness ==
  /\ AtTop /\ log.op = Op("write", "s", value["s"]) /\ log.pre["s"] = value["s"]
  /\ value["s"] # 0
  /\ publicSubscribers["s"]
  /\ internalSubscribers["s"] # <<>>

\* C8: the evaluation function of a derived cell runs at most once between two
\* changes of the signal it reads, and once top-level reads were made since the
\* last change it has run exactly once.
C8_Memoized ==
  \A c \in Comps :
    /\ log.since[c] <= 1
    /\ (AtTop /\ log.reads[c] >= 1) => log.since[c] = 1

\* C9: once dispose() of a reaction has returned, it and every reaction created
\* during its runs, transitively, are inactive and their bodies are not invoked
\* again; a completed top-level write has stored its value.
C9_OwnedDisposed ==
  /\ \A x \in log.disposed : ~active[x]
  /\ ~log.ranAfter
  /\ (AtTop /\ log.op.k = "write" /\ log.disposed # {}) => value[log.op.c] = log.op.v

\* C10: a reaction whose active flag is false is registered on no cell and has
\* an empty cleanups list.
C10_Released ==
  \A e \in Effs :
    (tmpl[e] # None /\ ~active[e]) =>
      /\ cleanups[e] = <<>>
      /\ \A sg \in Cells : e \notin Range(internalSubscribers[sg])

\* C11: every call of batch() leaves batchDepth as it found it, whichever way
\* the call exits: fn returned, fn raised, or a notification raised in the flush.
BatchExits == TopIs("batch") /\ Len(stack') < Len(stack)
C11_DepthRestored == [][BatchExits => batchDepth' = Last(stack).old]_vars

\* the trackers of the runWithTracker calls in progress, outermost first
RECURSIVE Running(_)
Running(st) ==
  IF st = <<>> THEN <<>>
  ELSE IF Last(st).k = "body" THEN Append(Running(Front(st)), Last(st).id)
  ELSE Running(Front(st))
\* The stack discipline of runWithTracker: the tracker stack holds exactly the
\* trackers of the calls in progress, so every exit pops what the call pushed
\* and the stack is empty when all calls have exited.
TrackersMirrorCalls == trackers = Running(stack)

\* C12: while the fn of a runWithTracker(tracker, fn) call is running (outside
\* nested calls), the current tracker is the pushed tracker.
C12_CurrentIsPushed == TopIs("body") => getCurrentTracker(Cur) = Last(stack).id

\* the body of the outermost batch() call of the user is still running
OuterFnRunning == Len(stack) >= 2 /\ stack[1].k = "batch" /\ stack[2].k = "fn"
\* C13: while the body of the outermost batch is running, whatever was written
\* in it and whether or not inner batches have returned or raised, no public
\* subscriber of a signal has been called, no reaction has been re-run (the
\* first run of a reaction created in the body is not a re-run) and no batch()
\* call is in its flush loop; the flush loop only ever runs in a call that found
\* depth 0 and has no other batch() call around it.
C13_DeferredFlush ==
  /\ OuterFnRunning =>
        /\ \A sg \in Sigs : log.calls[sg] = <<>>
        /\ \A i \in 1 .. Len(stack) :
             (stack[i].k = "body" /\ stack[i].id \in Effs) => stack[i].flag
        /\ \A i \in 1 .. Len(stack) : stack[i].k = "batch" => stack[i].pc = 1
  /\ \A i \in 1 .. Len(stack) :
       (stack[i].k = "batch" /\ stack[i].pc = 2) =>
         stack[i].old = 0 /\ \A j \in 1 .. i - 1 : stack[j].k # "batch"
\* an inner batch has raised into the body of the outer one, with a subscriber
\* and a reaction waiting in the pending set
C13_Witness ==
  /\ Len(stack) = 2 /\ InFn /\ exc /\ batchDepth = 1
  /\ publicSubscribers["s"] /\ log.uw["s"] >= 1 /\ log.uw["t"] >= 1
  /\ Len(SelectSeq(pendingNotifications, LAMBDA th : th = FlushThunk("s"))) = 1
  /\ \E e \in Effs : active[e] /\ Len(SelectSeq(pendingNotifications, LAMBDA th : th = e)) = 1

\* the user's call of batch() has exited, and its body had raised
BatchRaised == AtTop /\ log.op.k = "batch" /\ log.raised
\* C14: when the body of an outermost batch raises after writing signals, the
\* pending set has been drained when the call exits, every signal the body
\* changed (and no reaction rewrote) keeps the value written last, and its
\* public subscriber was called exactly once, with that value and the value
\* the signal had before the batch.
C14_FlushOnError ==
  BatchRaised =>
    /\ pendingNotifications = <<>>
    /\ \A sg \in Sigs :
         (log.uw[sg] >= 1 /\ ~log.rw[sg]) =>
           /\ value[sg] = log.wrote[sg]
           /\ (publicSubscribers[sg] /\ value[sg] # log.pre[sg]) =>
                log.calls[sg] = << <<value[sg], log.pre[sg], value[sg]>> >>

\* body R is T or creates, directly or through the bodies it creates, body T
RECURSIVE Creates(_, _)
Creates(R, T) ==
  R = T \/ \E i \in 1 .. Len(Prog[R]) :
             Prog[R][i].op \in {"effect", "ueffect", "effectif"} /\ Creates(Prog[R][i].c, T)
\* the cells that hold tracker tr as an internal subscriber
RegisteredOn(tr) == {c \in Cells : \E i \in 1 .. Len(internalSubscribers[c]) : internalSubscribers[c][i] = tr}
\* tracker tr exists, has not been disposed, and no run of it is in progress
Settled(tr) ==
  /\ IF tr \in Effs THEN active[tr] ELSE tr \in MadeComps(scn)
  /\ \A i \in 1 .. Len(stack) : ~(stack[i].k = "body" /\ stack[i].id = tr)
\* the program calls untracked() somewhere
UsesUntracked(sc) ==
  \/ Untrackable(sc) # {}
  \/ UntrackedWritten(sc) # {}
  \/ \E T \in DOMAIN Prog : \E i \in 1 .. Len(Prog[T]) :
       /\ Prog[T][i].op \in {"untracked", "ueffect"}
       /\ \E R \in TopEffects(sc) : Creates(R, T)
\* the programs that call untracked() somewhere
UntrackedPrograms == {sc \in Scenarios : UsesUntracked(sc)}
\* C15: in a program that does not use untracked, whenever no run of a live
\* tracker is in progress the cells that hold it as an internal subscriber are
\* exactly the cells its latest run read through .value.
C15_DynamicDeps ==
  scn \notin UntrackedPrograms =>
    \A tr \in Trackers : Settled(tr) => RegisteredOn(tr) = log.deps[tr]
\* the effect that reads t only while s is 0 has re-run on s changing to 1
C15_Witness ==
  /\ AtTop /\ log.op = Op("write", "s", 1) /\ log.pre["s"] = 0
  /\ \E e \in Effs :
       /\ tmpl[e] = "K" /\ active[e] /\ log.runs[e] = 1
       /\ log.deps[e] = {"s"} /\ RegisteredOn(e) = {"s"}

\* C16: dispose() on a reaction that is no longer active, and an unsubscribe
\* function called when the callback is no longer subscribed, raise nothing
\* and change no state; a reaction whose active flag is false stays inactive.
C16_IdempotentRelease ==
  [][/\ \A e \in Effs :
          /\ (EnvDispose(e) /\ ~active[e]) => (UNCHANGED <<engine, stack>> /\ ~exc' /\ NothingRan)
          /\ (tmpl[e] # None /\ ~active[e]) => ~active'[e]
     /\ \A c \in Cells :
          (EnvUnsubscribe(c) /\ ~publicSubscribers[c]) =>
            (UNCHANGED <<engine, stack>> /\ ~exc' /\ NothingRan)]_vars

\* an unbatched top-level write has changed signal sg
TopWrite(sg) == log.op.k = "write" /\ log.op.c = sg /\ log.uw[sg] = 1
\* in the program of the parent with two children: after a write to s every
\* child still active has re-run once, and a write to t re-runs the parent
\* once its notification has been handed out
StillRerun ==
  scn = "siblings" =>
    /\ (AtTop /\ TopWrite("s")) =>
         \A x \in Effs : (tmpl[x] = "G" /\ active[x]) => log.runs[x] = 1
    /\ (TopWrite("t") /\ Len(stack) >= 2 /\ stack[2].k = "set" /\ stack[2].q = <<>>) =>
         \A p \in Effs : (tmpl[p] = "F" /\ active[p]) => log.runs[p] = 1
\* C17: dispose() of a reaction leaves every reaction that was not created in
\* its runs (its parent, its siblings) as it was: active flag, cleanups and
\* registrations on cells; and those reactions go on re-running on writes.
C17_DisposeLocal ==
  [][/\ \A e \in Effs :
          (Logged(Op("dispose", e, 0)) /\ EnvDispose(e)) =>
            \A x \in Effs :
              ~CreatedIn(Cur, x, e) =>
                /\ active'[x] = active[x]
                /\ cleanups'[x] = cleanups[x]
                /\ RegisteredOn(x)' = RegisteredOn(x)
     /\ StillRerun']_vars
\* one child was disposed by hand; a later write to s re-ran its sibling and
\* neither the disposed child nor the parent
C17_Witness ==
  /\ scn = "siblings" /\ AtTop /\ TopWrite("s")
  /\ \E p, c1, c2 \in Effs :
       /\ tmpl[p] = "F" /\ active[p] /\ log.runs[p] = 0 /\ RegisteredOn(p) = {"t"}
       /\ log.createdBy[c1] = p /\ ~active[c1] /\ log.runs[c1] = 0
       /\ log.createdBy[c2] = p /\ active[c2] /\ log.runs[c2] = 1

\* C18 as stated: a batch() call that returns, returns what its fn returned.
C18_ReturnsFnValue == [][(BatchExits /\ ~exc') => rv' = Last(stack).new]_vars
\* C18 amended: a batch() call that returns, returns undefined whatever its fn
\* returned, after performing the flush.
C18_ReturnsUndefined ==
  [][(BatchExits /\ ~exc') =>
       /\ rv' = Undefined
       /\ (Last(stack).old = 0 => pendingNotifications' = <<>>)]_vars
\* batch(() => { s.value = 1; return 2 }) has returned undefined
C18_Witness ==
  /\ AtTop /\ log.op.k = "batch" /\ ~exc /\ log.ret = 2 /\ rv = Undefined
  /\ log.uw["s"] >= 1 /\ \E e \in Effs : log.runs[e] >= 1

\* the cells each body reads through .value
BodyReads ==
  [T \in DOMAIN Prog |->
     {Prog[T][i].c : i \in {j \in 1 .. Len(Prog[T]) : Prog[T][j].op \in {"read", "readif"}}}]
\* the cells the body of tracker tr reads through .value
ValueReads(tr) == BodyReads[IF tr \in Comps THEN tr ELSE tmpl[tr]]
\* C19: a tracker is an internal subscriber only of cells its body reads
\* through .value, and holds cleanups only for those: peek() and writes made
\* while it is the current tracker register nothing. A reaction that only
\* peeks s is not re-run by a write to s.
C19_PeekAndWriteUntracked ==
  /\ \A tr \in Trackers :
       (tr \in MadeComps(scn) \/ (tr \in Effs /\ tmpl[tr] # None)) =>
         /\ RegisteredOn(tr) \subseteq ValueReads(tr)
         /\ Range(cleanups[tr]) \subseteq ValueReads(tr)
         /\ \A c \in Cells : tr \in members[c] => c \in ValueReads(tr)
  /\ (scn = "peeker" /\ TopWrite("s")) =>
       \A e \in Effs : tmpl[e] = "Q" => log.runs[e] = 0
\* s was written while the reaction that peeks s and a was active
C19_Witness ==
  /\ scn = "peeker" /\ AtTop /\ TopWrite("s")
  /\ \E e \in Effs : tmpl[e] = "Q" /\ active[e] /\ RegisteredOn(e) = {"t"}

\* an untracked() call is in progress
InUntracked(st) == \E i \in 1 .. Len(st) : st[i].k = "untracked"
\* the step registers no tracker on any cell
NothingRegistered ==
  /\ \A c \in Cells :
       /\ Range(internalSubscribers'[c]) \subseteq Range(internalSubscribers[c])
       /\ members'[c] \subseteq members[c]
  /\ \A tr \in Trackers : Len(cleanups'[tr]) <= Len(cleanups[tr])
\* the tracking mode is off exactly while an untracked() call is in progress,
\* and every call in progress has saved the mode it found
ModeFollowsCalls ==
  /\ isTracking = ~InUntracked(stack)
  /\ \A i \in 1 .. Len(stack) :
       stack[i].k = "untracked" => stack[i].flag = ~InUntracked(SubSeq(stack, 1, i - 1))
\* C20: while an untracked() call is in progress no step registers a tracker
\* on a cell, whatever the tracker stack holds; the call returns what its fn
\* returned; and the tracking mode is off during the call and back to what the
\* call found once it has returned or raised, also when calls are nested.
C20_UntrackedSuspends ==
  [][/\ (InUntracked(stack) \/ InUntracked(stack')) => NothingRegistered
     /\ StepUntracked => (rv' = rv /\ exc' = exc)
     /\ ModeFollowsCalls']_vars
\* the effect has returned from untracked(() => effect(...)), in which the
\* inner effect called untracked() too, and has then read s
C20_Witness ==
  /\ scn = "nested" /\ AtTop /\ isTracking
  /\ \E v, n \in Effs :
       /\ tmpl[v] = "V" /\ RegisteredOn(v) = {"t", "s"}
       /\ tmpl[n] = "N" /\ active[n] /\ RegisteredOn(n) = {} /\ log.createdBy[n] = v

\* an exception is on its way out: it is unwinding the stack, or a finally
\* block of batch holds it while it drains the pending set
InFlight ==
  exc \/ \E i \in 1 .. Len(stack) : stack[i].k = "batch" /\ stack[i].pc = 2 /\ stack[i].flag
\* C21: once a reaction body or an evaluation function has raised, the
\* exception stays in flight through every engine frame (effect(), .value,
\* notify, the write, batch) until the user's code catches it, and a top-level
\* call that it reaches ends raising.
C21_Propagates == log.threw => InFlight /\ (AtTop => exc)
\* the evaluation function of c raised in the flush of a batch, and the batch
\* call has raised
C21_Witness ==
  /\ scn = "failing" /\ AtTop /\ log.op.k = "batch" /\ log.threw /\ exc
  /\ log.evals["c"] >= 1

\* the effect() call on top returns the handle
EffectReturns == TopIs("effect") /\ Len(stack') < Len(stack) /\ ~exc'
\* what the run of reaction e that completed last read first
FirstSeen(e) == Last(log.seen[e])[1]
\* a top-level write outside every batch() call has changed sg and has returned
\* or raised
UnbatchedWriteDone(sg) == AtTop /\ TopWrite(sg)
\* after it: a reaction that was active and had read sg in its latest run has
\* run once more if it is still active (and never twice unless a reaction
\* wrote sg again meanwhile), seeing the value sg has now; a reaction that had
\* read neither sg nor a derived cell over sg has not run
RunsAfterWrite(sg) ==
  \A e \in Effs :
    log.latest[e] # {None} =>
      IF sg \in log.latest[e]
      THEN /\ log.rw[sg] \/ log.runs[e] <= 1
           /\ active[e] => log.runs[e] >= 1
           /\ (log.runs[e] = 1 /\ ~exc /\ Prog[tmpl[e]][1] = Ins("read", sg)) =>
                FirstSeen(e) = value[sg]
      ELSE (\A c \in log.latest[e] \cap Comps : ~Reads(c, sg)) => log.runs[e] = 0
\* C22: effect(fn) has run fn exactly once when it returns the handle, which is
\* active; afterwards each unbatched write that changes a signal the reaction
\* read in its latest run makes it run exactly once more, with the new value,
\* and a write to a signal it did not read makes it run not at all. (A
\* reaction that writes a signal it reads re-runs itself: its further runs are
\* not counted.)
C22_RunCount ==
  [][/\ EffectReturns =>
          /\ active'[Last(stack).id]
          /\ log'.runs[Last(stack).id] >= 1
          /\ (\A sg \in Sigs : ~log'.rw[sg]) => log'.runs[Last(stack).id] = 1
     /\ \A sg \in Sigs : UnbatchedWriteDone(sg)' => RunsAfterWrite(sg)']_vars

\* a notification starts the body of reaction e again; the re-run of e ends
Reruns(e) ==
  /\ Len(stack') > Len(stack)
  /\ Last(stack').k = "body" /\ Last(stack').id = e /\ ~Last(stack').flag
RerunEnds(e) ==
  /\ TopIs("body") /\ Last(stack).id = e /\ ~Last(stack).flag
  /\ Len(stack') < Len(stack)
\* the reactions allocated after the first n that the body of e created, in
\* the state m
CreatedSince(m, n, e) ==
  {EffName[i] : i \in {j \in n + 1 .. MaxEff :
                         m.tmpl[EffName[j]] # None /\ m.log.createdBy[EffName[j]] = e}}
\* C23: when a notification re-runs an active reaction, each child it owned is
\* inactive and registered nowhere as its body starts, and when the re-run ends
\* its children are exactly the reactions its body created in that run.
C23_ChildrenReplaced ==
  [][\A e \in Effs :
       /\ Reruns(e) =>
            /\ \A x \in Range(children[e]) :
                 ~active'[x] /\ RegisteredOn(x)' = {} /\ cleanups'[x] = <<>>
            /\ children'[e] = <<>>
       /\ RerunEnds(e) => Range(children'[e]) = CreatedSince(Cur', Last(stack).old, e)]_vars

\* the evaluation function of c is running because c was notified
EvaluatedByNotify(c) ==
  \E i \in 1 .. Len(stack) - 1 :
    /\ stack[i].k = "notify" /\ stack[i].id = c /\ stack[i].pc = 1
    /\ stack[i + 1].k = "body" /\ stack[i + 1].id = c
\* the evaluation function of c returns a value when the signal it reads is v
Returns(c, v) ==
  ~(v = 1 /\ \E i \in 1 .. Len(Prog[c]) : Prog[c][i].op \in {"throw", "effectif"})
\* C24: a notification runs the evaluation function of a derived cell only
\* when the cell has an internal subscriber; and a top-level .value read of a
\* derived cell without internal subscribers has run the function at most
\* once, the function has run since the signal it reads last changed, and the
\* read has returned the function of the signal's value now (when the function
\* returns one).
C24_LazyUnobserved ==
  \A c \in Comps :
    /\ EvaluatedByNotify(c) => internalSubscribers[c] # <<>>
    /\ (/\ AtTop /\ ~exc /\ log.op = Op("read", c, 0) /\ internalSubscribers[c] = <<>>
        /\ Returns(c, value["s"])) =>
         /\ log.evals[c] <= 1
         /\ log.since[c] >= 1
         /\ rv = Ret(c, <<value["s"]>>)

\* notify() of derived cell c has its recomputed value in hand and compares it
Compares(c) == TopIs("notify") /\ Last(stack).id = c /\ Last(stack).pc = 1 /\ ~exc
\* C25: a derived cell with an internal subscriber is never left dirty by a
\* notification: it re-evaluates in it. When the recomputed value differs from
\* the previous one it goes on to notify each of its internal subscribers, and
\* when the value is the same it returns having run no reaction; so after an
\* unbatched write to s in which the derived cell was notified and re-evaluated,
\* a reaction that reads only the derived cell has run once if the cell's value
\* has changed and not at all if it has not.
C25_EagerCutoff ==
  [][/\ \A c \in Comps : dirty'[c] => internalSubscribers'[c] = <<>>
     /\ \A c \in Comps :
          Compares(c) =>
            /\ value'[c] = rv
            /\ IF rv # Last(stack).old
               THEN /\ Len(stack') = Len(stack)
                    /\ Last(stack').pc = 2 /\ Last(stack').q = internalSubscribers[c]
               ELSE Len(stack') < Len(stack) /\ log'.runs = log.runs
     /\ (UnbatchedWriteDone("s") /\ ~exc)' =>
          \A e \in Effs : \A c \in Comps :
            (log'.latest[e] = {c} /\ Returns(c, 1) /\ log'.evals[c] >= 1) =>
              log'.runs[e] = IF Ret(c, <<log'.pre["s"]>>) # Ret(c, <<value'["s"]>>) THEN 1 ELSE 0]_vars
\* a write changed s from 10 to 20, k was re-evaluated to the same value 10 and
\* the reaction reading k has not run
C25_Witness ==
  /\ scn = "observer" /\ AtTop /\ TopWrite("s") /\ log.pre["s"] = 10 /\ value["s"] = 20
  /\ log.evals["k"] = 1 /\ value["k"] = 10
  /\ \E e \in Effs : active[e] /\ log.latest[e] = {"k"} /\ log.runs[e] = 0

\* the .value read of derived cell c has re-evaluated a dirty c and has the
\* result in hand
ReadReevaluated(c) == TopIs("get") /\ Last(stack).id = c /\ ~exc
\* C26: when a .value read has re-evaluated a dirty derived cell, the cell's
\* public subscriber is called once with (new, old) if it is subscribed and the
\* new value differs from the cached one, and otherwise nobody is called; a
\* cell without a subscribed callback records no call.
C26_PublicOnRead ==
  [][\A c \in Comps :
       /\ ReadReevaluated(c) =>
            log'.calls[c] =
              IF publicSubscribers[c] /\ rv # Last(stack).old
              THEN Append(log.calls[c], <<rv, Last(stack).old, rv>>)
              ELSE log.calls[c]
       /\ ~publicSubscribers'[c] => log'.calls[c] = <<>>]_vars
\* a top-level read re-evaluated a from 0 to 1 and its subscriber was called
\* with (1, 0)
C26_Witness ==
  /\ scn = "lazy" /\ AtTop /\ log.op = Op("read", "a", 0) /\ log.evals["a"] = 1
  /\ log.calls["a"] = << <<2, 0, 2>> >>

IsPrefix(p, q) == Len(p) <= Len(q) /\ SubSeq(q, 1, Len(p)) = p
NoDuplicates(q) == \A i, j \in 1 .. Len(q) : q[i] = q[j] => i = j
\* q2 is q1 with some elements removed and new ones added behind
KeepsOrder(q1, q2) ==
  /\ SelectSeq(q2, LAMBDA x : x \in Range(q1)) = SelectSeq(q1, LAMBDA x : x \in Range(q2))
  /\ \A i, j \in 1 .. Len(q2) : (i < j /\ q2[i] \notin Range(q1)) => q2[j] \notin Range(q1)
\* the step has invoked thunk th: flushPublicSubscribers has run, the body of an
\* active reaction has been started, a derived cell has been marked dirty or is
\* re-evaluating
Invoked(th) ==
  IF th \in FlushThunks THEN log'.flushed[FlushSignal(th)] /\ ~hasPrebatchValue'[FlushSignal(th)]
  ELSE IF th \in Effs
  THEN active[th] => Len(stack') = Len(stack) + 1 /\ Last(stack').k = "body" /\ Last(stack').id = th
  ELSE dirty'[th] \/ (Last(stack').k = "body" /\ Last(stack').id = th)
\* a frame that is iterating over a snapshot: a flush round of batch, the
\* notification pass of an unbatched write, the notification pass of a derived cell
Iterating ==
  /\ ~exc /\ stack # <<>> /\ Last(stack).q # <<>>
  /\ \/ TopIs("batch") /\ Last(stack).pc = 2
     \/ TopIs("set")
     \/ TopIs("notify") /\ Last(stack).pc = 2
\* C27: a thunk keeps its place in the pending set from its first enqueueing
\* until the round that takes it (later thunks go behind it, a second
\* enqueueing changes nothing); a round's snapshot is the pending set in that
\* order, without repetition, and is invoked from the front; the internal
\* subscribers of a cell stay in the order of their registrations, the passes
\* over them take them in that order.
C27_FlushOrder ==
  [][/\ pendingNotifications' = <<>> \/ IsPrefix(pendingNotifications, pendingNotifications')
     /\ NoDuplicates(pendingNotifications')
     /\ (TopIs("batch") /\ Last(stack).pc = 2 /\ ~exc /\ Last(stack).q = <<>>
           /\ pendingNotifications # <<>>) =>
          stack' = Front(stack) \o <<[Last(stack) EXCEPT !.q = pendingNotifications]>>
     /\ Iterating =>
          /\ NoDuplicates(Last(stack).q)
          /\ Invoked(Head(Last(stack).q))
          /\ stack'[Len(stack)].q = Tail(Last(stack).q)
     /\ \A c \in Cells : KeepsOrder(internalSubscribers[c], internalSubscribers'[c])
     /\ \A i \in 1 .. Len(stack') :
          (i > Len(stack) /\ stack'[i].k = "set") => stack'[i].q = internalSubscribers[stack'[i].id]
     /\ (TopIs("notify") /\ Last(stack).pc = 1 /\ Len(stack') = Len(stack) /\ ~exc) =>
          Last(stack').q = internalSubscribers[Last(stack).id]]_vars
\* a flush round is half done: its first thunk has been invoked, a second
\* one waits, and a thunk enqueued meanwhile waits for the next round
C27_Witness ==
  /\ TopIs("batch") /\ Last(stack).pc = 2 /\ Len(Last(stack).q) >= 1
  /\ pendingNotifications # <<>>
  /\ log.flushed["t"]

\* a top-level write or batch is over during whose flush a reaction's write
\* changed signal sg
ReentrantWriteDone(sg) ==
  AtTop /\ ~exc /\ log.op.k \in {"write", "batch"} /\ log.rw[sg]
\* C28: when the outermost call returns, a write that a reaction made during
\* its flush has been handled by the same drain: nothing is pending, the
\* signal's pre-batch value is no longer held and the depth is back at 0; the
\* signal's public subscriber has been called at most once after the flush
\* began unless the signal changed again after its own flush, and exactly once,
\* with (value now, value before the call), when only the reaction wrote it.
C28_ReentrantFolded ==
  \A sg \in Sigs :
    ReentrantWriteDone(sg) =>
      /\ pendingNotifications = <<>> /\ ~hasPrebatchValue[sg] /\ batchDepth = 0
      /\ (publicSubscribers[sg] /\ ~log.late[sg]) => Len(log.calls[sg]) <= 1
      /\ (publicSubscribers[sg] /\ log.uw[sg] = 0 /\ value[sg] # log.pre[sg]) =>
           log.calls[sg] = << <<value[sg], log.pre[sg], value[sg]>> >>

\* a top-level write or batch() call is over
CallOver == AtTop /\ log.op.k \in {"write", "batch"}
\* the cells are where the reactions leave them: the self-incrementing reaction
\* has brought s to its bound, and the copying reaction has made s equal to t
\* when the call changed t
FixedPoint ==
  /\ \A e \in Effs : (tmpl[e] = "I" /\ active[e]) => value["s"] = MaxVal
  /\ \A e \in Effs : (tmpl[e] = "W" /\ active[e] /\ log.uw["t"] >= 1) => value["s"] = value["t"]
\* C29: when an unbatched write or a batch() call is over, the pending set is
\* empty, the depth is 0 and the cells are at the fixed point of the reactions.
C29_DrainSettles == CallOver => pendingNotifications = <<>> /\ batchDepth = 0 /\ FixedPoint

\* C30: in every state, a tracker is in a cell's membership record exactly when
\* it is in the cell's internal subscriber set, it then holds exactly one
\* cleanup for the cell and otherwise none, and the subscriber set holds it once.
C30_Registration ==
  /\ \A c \in Cells :
       /\ members[c] = Range(internalSubscribers[c])
       /\ NoDuplicates(internalSubscribers[c])
  /\ \A tr \in Trackers :
       /\ Range(cleanups[tr]) = {c \in Cells : tr \in members[c]}
       /\ NoDuplicates(cleanups[tr])
\* a reaction whose cleanups were run by its notification has read k twice in
\* its re-run and is registered on a again, with one cleanup
C30_Witness ==
  /\ scn = "observer" /\ AtTop /\ TopWrite("s")
  /\ \E e \in Effs :
       /\ log.runs[e] = 1 /\ Len(Last(log.seen[e])) = 2
       /\ e \in members["k"] /\ cleanups[e] = <<"k">>

\* C31: every call of a public subscriber of a signal, made by the unbatched
\* branch of the setter or by a flush, finds the signal at the value it is
\* called with as `new` (the callback reads the signal, through peek()).
C31_SeesNew ==
  \A sg \in Sigs :
    \A i \in 1 .. Len(log.calls[sg]) : log.calls[sg][i][3] = log.calls[sg][i][1]

\* the body of a batch is the caller of the frame on top
CalledByFn == Len(stack) >= 2 /\ stack[Len(stack) - 1].k = "fn"
\* C32: a .value read of a derived cell made by the body of a batch, after a
\* write of that batch changed s, returns the cell's evaluation function
\* applied to the value s has now; both when the read returns the cached value
\* at once and when it returns from an evaluation.
C32_FreshInBatch ==
  [][\A c \in Comps :
       /\ (InFn /\ log.uw["s"] >= 1 /\ EnvRead(c) /\ stack' = stack)
            => rv' = Ret(c, <<value'["s"]>>)
       /\ (TopIs("get") /\ Last(stack).id = c /\ CalledByFn /\ log.uw["s"] >= 1 /\ ~exc')
            => rv' = Ret(c, <<value'["s"]>>)]_vars

\* the thunks that wait to be invoked: the pending set and what is left of the
\* snapshot `queued` of a flush round in progress
Waiting(st, pend) ==
  Range(pend) \cup UNION {Range(st[i].q) : i \in {j \in 1 .. Len(st) : st[j].k = "batch"}}
\* the step invokes thunk th: it is the next one of the running flush round
Takes(th) ==
  /\ TopIs("batch") /\ Last(stack).pc = 2 /\ ~exc
  /\ Last(stack).q # <<>> /\ th = Head(Last(stack).q)
\* C33: a thunk that waits in the pending set or in the snapshot of a flush
\* round waits there still after any step that did not invoke it, also a step
\* in which an exception leaves the round.
C33_NoLostNotification ==
  [][\A th \in Waiting(stack, pendingNotifications) :
       th \in Waiting(stack', pendingNotifications') \/ Takes(th)]_vars

\* what the user's callbacks observe of one step from m to m1: the reactions
\* whose body was started, then the public-subscriber calls with their arguments
Events(m, m1) ==
  LET ran == SelectSeq(EffName, LAMBDA e : e \in Effs /\ m1.log.runs[e] > m.log.runs[e])
      told == SelectSeq(<<"s", "t">>,
                        LAMBDA sg : Len(m1.log.calls[sg]) > Len(m.log.calls[sg]))
  IN [i \in 1 .. Len(ran) |-> <<"run", ran[i]>>]
       \o [i \in 1 .. Len(told) |->
            <<"call", told[i], Last(m1.log.calls[told[i]])[1], Last(m1.log.calls[told[i]])[2]>>]
\* the engine cannot continue in the model: the body on top creates a reaction
\* and every effect object of the model is in use
OutOfEffects(m) ==
  /\ Top(m).k = "body" /\ ~m.exc /\ ~Top(m).wait /\ ~HasFreshEffect(m)
  /\ Top(m).pc <= Len(ProgOf(m, Top(m).id))
  /\ ProgOf(m, Top(m).id)[Top(m).pc].op \in {"effect", "ueffect", "effectif"}
\* the call that starts in m run to its end, and what was observed on the way
RECURSIVE Finish(_, _)
Finish(m, seq) ==
  IF m.stack = <<>> \/ OutOfEffects(m) THEN [m |-> m, seq |-> seq]
  ELSE Finish(resume(m), seq \o Events(m, resume(m)))
\* sg.value = v at top level; and batch(() => { sg.value = v })
WriteAlone(sg, v) == Finish(signalSet(Start(Op("write", sg, v)), sg, v), <<>>)
WriteInBatch(sg, v) ==
  LET m1 == [batch(Start(Op("batch", None, 0))) EXCEPT !.stack = Append(@, Frame("fn", None))]
      m2 == Pop(signalSet(m1, sg, v))
  IN Finish(SetTop(m2, [Top(m2) EXCEPT !.new = Undefined]), <<>>)
\* a reaction depends on sg and a public subscriber listens to it
Observed(sg) ==
  /\ publicSubscribers[sg]
  /\ \E e \in Effs : active[e] /\ e \in Range(internalSubscribers[sg])
\* C34: wherever the program stands at top level, a write that changes a signal
\* with dependent reactions and a public subscriber produces, made alone inside
\* batch(), the same sequence of reaction runs and subscriber calls (with the
\* same arguments) as made outside any batch, and each run reads the same values.
C34_BatchTransparent ==
  AtTop =>
    \A sg \in Written(scn), v \in WrittenVals(scn) :
      (Observed(sg) /\ v # value[sg]) =>
        /\ WriteInBatch(sg, v).seq = WriteAlone(sg, v).seq
        /\ WriteInBatch(sg, v).m.log.seen = WriteAlone(sg, v).m.log.seen

\* C35: every step that changes the cached value of a derived cell, in a
\* .value read or in the eager path of notify, calls the cell's public
\* subscriber once with (new, old).
C35_NoSilentChange ==
  [][\A c \in Comps :
       (value'[c] # value[c] /\ publicSubscribers[c]) =>
         log'.calls[c] = Append(log.calls[c], <<value'[c], value[c], value'[c]>>)]_vars

\* the evaluation function of derived cell c has raised, and the exception is
\* about to leave the .value read or the notify that started the evaluation
EvaluationFailed(c) ==
  /\ exc /\ stack # <<>> /\ Last(stack).id = c
  /\ TopIs("get") \/ (TopIs("notify") /\ Last(stack).pc = 1)
\* C36: when the evaluation function of a derived cell raises, in a .value
\* read or in an eager notify, the cell is dirty once the exception has left
\* the call, so that the next .value read evaluates again.
C36_FailedStaysDirty ==
  [][\A c \in Comps : EvaluationFailed(c) => dirty'[c]]_vars

\* effect(fn) has made the first run of fn without an exception and is about
\* to return, with tracker tr current: an enclosing reaction, or a derived cell
\* being evaluated
Constructed(tr) == TopIs("effect") /\ ~exc /\ tr # None /\ getCurrentTracker(Cur) = tr
\* C37: effect(fn) called while a tracker is current returns without raising,
\* and when the tracker is a reaction the new reaction is in its children set
\* (a derived cell has no children set to look into).
C37_CreatedUnderTracker ==
  [][\A tr \in Trackers :
       Constructed(tr) =>
         /\ ~exc' /\ stack' = Front(stack)
         /\ tr \in Effs => Last(stack).id \in Range(children'[tr])]_vars

\* untracked(() => { sg.value = v }) has returned
UntrackedWriteDone == AtTop /\ log.op.k = "uwrite" /\ ~exc
\* C38: a write inside untracked() that changes the signal outside any batch
\* starts the notification pass over all its internal subscribers; and when
\* the call has returned, every live reaction and every derived cell that ran
\* during it is registered on every cell its run read through .value.
C38_UntrackedWriteKeepsDeps ==
  [][/\ \A sg \in Sigs, v \in Vals :
          (EnvUntrackedWrite(sg, v) /\ v # value[sg] /\ batchDepth = 0) =>
            /\ TopIs("set")' /\ Last(stack').id = sg
            /\ Last(stack').q = internalSubscribers[sg]
     /\ UntrackedWriteDone' =>
          \A tr \in Trackers :
            (log'.runs[tr] >= 1 /\ Settled(tr)') => log'.deps[tr] \subseteq RegisteredOn(tr)']_vars

\* reaction e has been disposed: directly, or with its parent
Disposed(e) == tmpl[e] # None /\ ~active[e]
\* the step starts a run of the body of e
StartsRun(e) ==
  \/ log'.runs[e] > log.runs[e]
  \/ \E i \in Len(stack) + 1 .. Len(stack') : stack'[i].k = "body" /\ stack'[i].id = e
\* C39: no step starts the body of a disposed reaction; the flush round that
\* takes the queued notify of a disposed reaction goes on to its next thunk
\* and leaves the engine's state as it was.
C39_DisposalBeatsQueue ==
  [][\A e \in Effs :
       Disposed(e) =>
         /\ ~StartsRun(e)
         /\ Takes(e) =>
              /\ stack' = Front(stack) \o <<[Last(stack) EXCEPT !.q = Tail(@)]>>
              /\ engine' = engine /\ ~exc']_vars
\* s was written in a batch while the child and the grandchild were registered
\* on it, and they were disposed before the flush: the round has flushed s and
\* taken the child's notify without running it, the grandchild's is next
C39_Witness ==
  /\ scn = "owner" /\ TopIs("batch") /\ Last(stack).pc = 2 /\ ~exc
  /\ log.flushed["s"]
  /\ \E c, g \in Effs :
       /\ tmpl[c] = "C" /\ tmpl[g] = "G" /\ log.createdBy[g] = c
       /\ Disposed(c) /\ Disposed(g)
       /\ log.runs[c] = 0 /\ log.runs[g] = 0
       /\ Last(stack).q = <<g>>
====
